---------------------------- MODULE Spec2Model ----------------------------
(***************************************************************************)
(* Model of the TraderBot decision core: TradeLogic (trade_logic.py),      *)
(* FeeCalculator (fee_calculator.py), DataManager (data_manager.py), the   *)
(* ExchangeHandler calls TradeLogic makes (exchange.py) and the loop of    *)
(* main (main.py).                                                         *)
(*                                                                         *)
(* Amounts, prices, fees and returns are Python floats in the source; the  *)
(* model computes them as exact rationals <<numerator, denominator>>, so   *)
(* that a division followed by a multiplication is not the identity by     *)
(* construction but by arithmetic.  A score is kept as a whole number of   *)
(* halves of a percent: 1 is the score 0.5 and 200 the score 100.          *)
(***************************************************************************)
EXTENDS Integers, Sequences, FiniteSets, TLC

(***************************************************************************)
(* Exact rational arithmetic.                                              *)
(***************************************************************************)
Abs(n) == IF n < 0 THEN -n ELSE n

RECURSIVE GCD(_, _)
GCD(a, b) == IF b = 0 THEN a ELSE GCD(b, a % b)

LCM(a, b) == (a \div GCD(a, b)) * b

Norm(n, d) ==
    LET g == GCD(Abs(n), d)
    IN  IF n = 0 THEN <<0, 1>> ELSE <<n \div g, d \div g>>

Rat(n) == <<n, 1>>
Zero == <<0, 1>>
One == <<1, 1>>

RAdd(x, y) ==
    LET l == LCM(x[2], y[2])
    IN  Norm(x[1] * (l \div x[2]) + y[1] * (l \div y[2]), l)

RNeg(x) == <<-x[1], x[2]>>

RSub(x, y) == RAdd(x, RNeg(y))

RMul(x, y) ==
    LET g1 == GCD(Abs(x[1]), y[2])
        g2 == GCD(Abs(y[1]), x[2])
    IN  IF x[1] = 0 \/ y[1] = 0 THEN Zero
        ELSE Norm((x[1] \div g1) * (y[1] \div g2), (x[2] \div g2) * (y[2] \div g1))

\* x / y for y > 0
RDiv(x, y) == RMul(x, <<y[2], y[1]>>)

RLt(x, y) ==
    LET l == LCM(x[2], y[2])
    IN  x[1] * (l \div x[2]) < y[1] * (l \div y[2])

RLe(x, y) == ~RLt(y, x)

RMin(x, y) == IF RLt(y, x) THEN y ELSE x

(***************************************************************************)
(* Configuration (config.py DEFAULT_CONFIG, overridable by the user's      *)
(* config file) and the bounds of the model.                               *)
(***************************************************************************)
base_currency == "USDT"

\* a two-coin universe: the first coins of the default list
trade_coins == <<"BTC", "ETH">>

trade_amount == 100

\* 0.005
min_profit_threshold == <<1, 200>>

fee_discount == Zero

\* the configured daily limit, taken small enough to be reached
max_trades_per_day == 2

\* taker fee rates the configuration or the exchange may give
TakerFees == {Zero, <<1, 2>>}

\* prices a caller of execute_trade may pass, 0 among them
PriceValues == {0, 1, 2}

\* last prices a ticker reports
TickerPrices == {1, 2}

\* composite scores, in halves of a percent: -100, -0.5, 0, 0.5 (the score
\* whose return without fee is min_profit_threshold) and 100
Scores == {-200, -1, 0, 1, 200}

MaxTrades == 3
MaxDays == 2
MaxSnapshots == 2

\* the trades and the snapshots of a longer run
LongTrades == 5
LongSnapshots == 4

Coins == {trade_coins[i] : i \in 1..Len(trade_coins)}
Assets == Coins \cup {base_currency}

\* the exchange_handler object TradeLogic is constructed with: the
\* ExchangeHandler of exchange.py, as main wires it, or another object
\* offering the methods TradeLogic calls
ExchangeKinds == {"ExchangeHandler", "OrderExecutor"}

NoDay == 0

VARIABLES
    exchange,            \* kind of self.exchange
    args_simulate,       \* the --simulate flag of the run
    taker_fee,           \* ExchangeHandler.taker_fee
    holdings,            \* TradeLogic.holdings
    total_fees_paid,     \* TradeLogic.total_fees_paid
    trades_executed,     \* TradeLogic.trades_executed
    daily_trade_count,   \* TradeLogic.daily_trade_count
    last_trade_day,      \* TradeLogic.last_trade_day (NoDay for None)
    trade_history,       \* DataManager.trade_history
    portfolio_snapshots, \* DataManager.portfolio_snapshots
    snapshot_file,       \* what portfolio_snapshots.json holds
    today,               \* datetime.now().date()
    pc,                  \* position of main
    ret,                 \* the last call: its arguments and what it returned
    decide_days,         \* history: the dates decide_trades was called on
    reset_count          \* history: per date, the resets of the daily counter

vars == <<exchange, args_simulate, taker_fee, holdings, total_fees_paid, trades_executed,
          daily_trade_count, last_trade_day, trade_history,
          portfolio_snapshots, snapshot_file,
          today, pc, ret, decide_days, reset_count>>


(***************************************************************************)
(* FeeCalculator.                                                          *)
(***************************************************************************)
\* __init__: effective_taker_fee = taker_fee * (1 - fee_discount)
standard_fee == RMul(taker_fee, RSub(One, fee_discount))

\* variant: the buy fee is charged on the configured trade amount
calculate_buy_fee_OnTradeAmount(amount) == RMul(Rat(trade_amount), standard_fee)

calculate_buy_fee(amount) == RMul(amount, standard_fee)

\* variant: the sell fee is charged twice
calculate_sell_fee_Twice(amount) == RMul(amount, RMul(Rat(2), standard_fee))

calculate_sell_fee(amount) == RMul(amount, standard_fee)

(***************************************************************************)
(* The order calls.  ExchangeHandler.execute_buy and execute_sell take     *)
(* simulate = True by default and only create a market order when it is    *)
(* False; accepted is whether the exchange accepts a created order.        *)
(* An order call returns [event, order]: what happened at the exchange and *)
(* whether the returned value is truthy.                                   *)
(***************************************************************************)
ExchangeHandler_execute(call, simulate, accepted) ==
    IF ~simulate
    THEN [event |-> <<call, "market_order">>, order |-> accepted]
    ELSE [event |-> <<call, "simulation">>, order |-> TRUE]

\* self.exchange.execute_buy(coin, amount) / execute_sell(coin, amount) as
\* TradeLogic calls them: the simulate argument is not passed
exchange_execute(call, accepted) ==
    IF exchange = "ExchangeHandler"
    THEN ExchangeHandler_execute(call, TRUE, accepted)
    ELSE [event |-> <<call, "market_order">>, order |-> accepted]

(***************************************************************************)
(* TradeLogic.execute_trade.  ts is the part of the state it reads and     *)
(* writes; acc = <<sell accepted, buy accepted>> are the exchange's        *)
(* answers.  The result is [ts, success, fee, events, error]: the new      *)
(* state, the first two returned values, the order calls and the ledger    *)
(* update in the order they happened, and why it failed.                   *)
(***************************************************************************)
LogicState ==
    [holdings |-> holdings, total_fees_paid |-> total_fees_paid,
     trades_executed |-> trades_executed,
     daily_trade_count |-> daily_trade_count,
     trade_history |-> trade_history]

\* variant: a failed trade is counted against the daily limit
Failed_Counted(ts, fee, events, error) ==
    [ts |-> [ts EXCEPT !.daily_trade_count = @ + 1], success |-> FALSE,
     fee |-> fee, events |-> events, error |-> error]

Failed(ts, fee, events, error) ==
    [ts |-> ts, success |-> FALSE, fee |-> fee, events |-> events,
     error |-> error]

\* variant: the trade is not counted against the daily limit
Bookkeeping_NotDaily(ts, h, fee, record) ==
    [holdings |-> h,
     total_fees_paid |-> RAdd(ts.total_fees_paid, fee),
     trades_executed |-> ts.trades_executed + 1,
     daily_trade_count |-> ts.daily_trade_count,
     trade_history |-> Append(ts.trade_history, record)]

\* "Update stats" and data_manager.add_trade
Bookkeeping(ts, h, fee, record) ==
    [holdings |-> h,
     total_fees_paid |-> RAdd(ts.total_fees_paid, fee),
     trades_executed |-> ts.trades_executed + 1,
     daily_trade_count |-> ts.daily_trade_count + 1,
     trade_history |-> Append(ts.trade_history, record)]

TradeRecord(type, sell_coin, buy_coin, expected_return, fee, simulate) ==
    [type |-> type, sell_coin |-> sell_coin, buy_coin |-> buy_coin,
     expected_return |-> expected_return, fee |-> fee, simulated |-> simulate]

\* variant: the configured trade amount is debited, whatever was spent
BuyHoldings_FullAmount(h, buy_coin, amount, crypto_amount) ==
    [h EXCEPT ![base_currency] = RSub(@, Rat(trade_amount)),
              ![buy_coin] = RAdd(@, crypto_amount)]

BuyHoldings(h, buy_coin, amount, crypto_amount) ==
    [h EXCEPT ![base_currency] = RSub(@, amount),
              ![buy_coin] = RAdd(@, crypto_amount)]

\* variant: the sold balance is not cleared
SellHoldings_KeepsSold(h, sell_coin, net_base_amount) ==
    [h EXCEPT ![base_currency] = RAdd(@, net_base_amount)]

SellHoldings(h, sell_coin, net_base_amount) ==
    [h EXCEPT ![base_currency] = RAdd(@, net_base_amount),
              ![sell_coin] = Zero]

\* variant: the proceeds of the sell leg are also credited to the base
RotationHoldings_BaseCredited(h, sell_coin, buy_coin, buy_amount) ==
    [[h EXCEPT ![sell_coin] = Zero, ![base_currency] = RAdd(@, buy_amount)]
        EXCEPT ![buy_coin] = RAdd(@, buy_amount)]

RotationHoldings(h, sell_coin, buy_coin, buy_amount) ==
    [[h EXCEPT ![sell_coin] = Zero] EXCEPT ![buy_coin] = RAdd(@, buy_amount)]

ExecuteBuy(ts, buy_coin, prices, expected_return, simulate, acc) ==
    LET amount == RMin(ts.holdings[base_currency], Rat(trade_amount))
        fee_amount == calculate_buy_fee(amount)
        effective_amount == RSub(amount, fee_amount)
        crypto_amount == RDiv(effective_amount, Rat(prices[buy_coin]))
        order == exchange_execute("execute_buy", acc[2])
        events == IF simulate THEN <<>> ELSE <<order.event>>
    IN  IF RLe(amount, Zero) THEN Failed(ts, Zero, <<>>, "insufficient")
        ELSE IF buy_coin \notin DOMAIN prices
        THEN Failed(ts, Zero, <<>>, "KeyError")
        ELSE IF prices[buy_coin] = 0
        THEN Failed(ts, Zero, <<>>, "ZeroDivisionError")
        ELSE IF ~simulate /\ ~order.order
        THEN Failed(ts, Zero, events, "order")
        ELSE [ts |-> Bookkeeping(ts,
                        BuyHoldings(ts.holdings, buy_coin, amount, crypto_amount),
                        fee_amount,
                        TradeRecord("buy", base_currency, buy_coin,
                                    expected_return, fee_amount, simulate)),
              success |-> TRUE, fee |-> fee_amount,
              events |-> Append(events, <<"holdings", "update">>),
              error |-> "none"]

ExecuteSell(ts, sell_coin, prices, expected_return, simulate, acc) ==
    LET amount_to_trade == ts.holdings[sell_coin]
        base_amount == RMul(amount_to_trade, Rat(prices[sell_coin]))
        fee_amount == calculate_sell_fee(base_amount)
        net_base_amount == RSub(base_amount, fee_amount)
        order == exchange_execute("execute_sell", acc[1])
        events == IF simulate THEN <<>> ELSE <<order.event>>
    IN  IF RLe(amount_to_trade, Zero) THEN Failed(ts, Zero, <<>>, "insufficient")
        ELSE IF sell_coin \notin DOMAIN prices
        THEN Failed(ts, Zero, <<>>, "KeyError")
        ELSE IF ~simulate /\ ~order.order
        THEN Failed(ts, Zero, events, "order")
        ELSE [ts |-> Bookkeeping(ts,
                        SellHoldings(ts.holdings, sell_coin, net_base_amount),
                        fee_amount,
                        TradeRecord("sell", sell_coin, base_currency,
                                    expected_return, fee_amount, simulate)),
              success |-> TRUE, fee |-> fee_amount,
              events |-> Append(events, <<"holdings", "update">>),
              error |-> "none"]

\* variant: the sold balance is cleared once the sell order went through
RotationBuyFailed_SellApplied(ts, sell_coin, sell_fee, events) ==
    [ts |-> [ts EXCEPT !.holdings[sell_coin] = Zero], success |-> FALSE,
     fee |-> sell_fee, events |-> events, error |-> "order"]

\* "Buy part of rotation failed": return False, sell_fee, None
RotationBuyFailed(ts, sell_coin, sell_fee, events) ==
    Failed(ts, sell_fee, events, "order")

ExecuteRotation(ts, sell_coin, buy_coin, prices, expected_return, simulate, acc) ==
    LET amount_to_trade == ts.holdings[sell_coin]
        base_amount == RMul(amount_to_trade, Rat(prices[sell_coin]))
        sell_fee == calculate_sell_fee(base_amount)
        net_base_amount == RSub(base_amount, sell_fee)
        buy_fee == calculate_buy_fee(net_base_amount)
        net_buy_amount == RSub(net_base_amount, buy_fee)
        buy_amount == RDiv(net_buy_amount, Rat(prices[buy_coin]))
        total_fee == RAdd(sell_fee, buy_fee)
        sell_order == exchange_execute("execute_sell", acc[1])
        buy_order == exchange_execute("execute_buy", acc[2])
    IN  IF RLe(amount_to_trade, Zero) THEN Failed(ts, Zero, <<>>, "insufficient")
        ELSE IF sell_coin \notin DOMAIN prices \/ buy_coin \notin DOMAIN prices
        THEN Failed(ts, Zero, <<>>, "KeyError")
        \* buy_amount divides by the buy price, the logged fee percentage
        \* by base_amount
        ELSE IF prices[buy_coin] = 0 \/ base_amount = Zero
        THEN Failed(ts, Zero, <<>>, "ZeroDivisionError")
        ELSE IF ~simulate /\ ~sell_order.order
        THEN Failed(ts, Zero, <<sell_order.event>>, "order")
        ELSE IF ~simulate /\ ~buy_order.order
        THEN RotationBuyFailed(ts, sell_coin, sell_fee,
                               <<sell_order.event, buy_order.event>>)
        ELSE [ts |-> Bookkeeping(ts,
                        RotationHoldings(ts.holdings, sell_coin, buy_coin, buy_amount),
                        total_fee,
                        TradeRecord("rotation", sell_coin, buy_coin,
                                    expected_return, total_fee, simulate)),
              success |-> TRUE, fee |-> total_fee,
              events |-> (IF simulate THEN <<>>
                          ELSE <<sell_order.event, buy_order.event>>)
                         \o <<<<"holdings", "update">>>>,
              error |-> "none"]

execute_trade(ts, sell_coin, buy_coin, prices, expected_return, simulate, acc) ==
    IF sell_coin = base_currency
    THEN ExecuteBuy(ts, buy_coin, prices, expected_return, simulate, acc)
    ELSE IF buy_coin = base_currency
    THEN ExecuteSell(ts, sell_coin, prices, expected_return, simulate, acc)
    ELSE ExecuteRotation(ts, sell_coin, buy_coin, prices, expected_return,
                         simulate, acc)

\* TradeLogic.calculate_portfolio_value
RECURSIVE CoinValue(_, _, _)
CoinValue(h, prices, i) ==
    IF i > Len(trade_coins) THEN Zero
    ELSE LET coin == trade_coins[i]
         IN  RAdd(IF coin \in DOMAIN prices
                  THEN RMul(h[coin], Rat(prices[coin])) ELSE Zero,
                  CoinValue(h, prices, i + 1))

calculate_portfolio_value(h, prices) ==
    RAdd(h[base_currency], CoinValue(h, prices, 1))

(***************************************************************************)
(* FeeCalculator.calculate_fee_adjusted_return.  performance_data maps the *)
(* scored coins to their score; reading a coin it does not hold raises     *)
(* KeyError.                                                               *)
(***************************************************************************)
\* score / 100, the score being score / 2 percent
ScoreFraction(score) == Norm(score, 200)

FeeAdjustedReturnRaises(from_coin, to_coin, performance_data) ==
    IF from_coin = base_currency THEN to_coin \notin DOMAIN performance_data
    ELSE IF to_coin = base_currency THEN from_coin \notin DOMAIN performance_data
    ELSE from_coin \notin DOMAIN performance_data
         \/ to_coin \notin DOMAIN performance_data

\* variant: a rotation is charged the fee of one leg
calculate_fee_adjusted_return_OneLeg(from_coin, to_coin, performance_data) ==
    IF from_coin = base_currency
    THEN RSub(ScoreFraction(performance_data[to_coin]), standard_fee)
    ELSE IF to_coin = base_currency
    THEN RSub(IF performance_data[from_coin] < 0
              THEN ScoreFraction(-performance_data[from_coin]) ELSE Zero,
              standard_fee)
    ELSE RSub(ScoreFraction(performance_data[to_coin] - performance_data[from_coin]),
              standard_fee)

calculate_fee_adjusted_return(from_coin, to_coin, performance_data) ==
    IF from_coin = base_currency
    THEN RSub(ScoreFraction(performance_data[to_coin]), standard_fee)
    ELSE IF to_coin = base_currency
    THEN RSub(IF performance_data[from_coin] < 0
              THEN ScoreFraction(-performance_data[from_coin]) ELSE Zero,
              standard_fee)
    ELSE RSub(ScoreFraction(performance_data[to_coin] - performance_data[from_coin]),
              RMul(standard_fee, Rat(2)))

(***************************************************************************)
(* TradeLogic.reset_daily_trade_count and TradeLogic.decide_trades.        *)
(***************************************************************************)
\* variant: the counter is reset on the first call only
reset_daily_trade_count_FirstOnly(count, last_day, date) ==
    IF last_day = NoDay
    THEN [reset |-> TRUE, daily_trade_count |-> 0, last_trade_day |-> date]
    ELSE [reset |-> FALSE, daily_trade_count |-> count, last_trade_day |-> date]

\* [reset, daily_trade_count, last_trade_day] after the call on date
reset_daily_trade_count(count, last_day, date) ==
    IF last_day # date
    THEN [reset |-> TRUE, daily_trade_count |-> 0, last_trade_day |-> date]
    ELSE [reset |-> FALSE, daily_trade_count |-> count, last_trade_day |-> last_day]

\* variant: the limit only stops the trades beyond it
LimitReached_Beyond(count) == count > max_trades_per_day

LimitReached(count) == count >= max_trades_per_day

CoinIndex(coin) == CHOOSE i \in 1..Len(trade_coins) : trade_coins[i] = coin

\* sorted(..., key=score, reverse=True) is stable: equal scores keep the
\* order of the mapping, which calculate_performance fills in coin order
RankedBefore(performance_data, c, d) ==
    \/ performance_data[c] > performance_data[d]
    \/ /\ performance_data[c] = performance_data[d]
       /\ CoinIndex(c) < CoinIndex(d)

RECURSIVE SortedCoins(_, _)
SortedCoins(performance_data, S) ==
    IF S = {} THEN <<>>
    ELSE LET first == CHOOSE c \in S :
                          \A d \in S \ {c} : RankedBefore(performance_data, c, d)
         IN  <<first>> \o SortedCoins(performance_data, S \ {first})

ranked_coins(performance_data) ==
    SortedCoins(performance_data, DOMAIN performance_data)

\* variant: the ranking is not reversed
Reverse_Not(s) == s

Reverse(s) == [i \in 1..Len(s) |-> s[Len(s) + 1 - i]]

\* the held coins, in the order of the holdings mapping (trade_coins order)
current_holdings(h) ==
    SelectSeq(trade_coins, LAMBDA coin : RLt(Zero, h[coin]))

InSeq(x, s) == \E i \in 1..Len(s) : s[i] = x

Intent(sell_coin, buy_coin, expected_return) ==
    [sell_coin |-> sell_coin, buy_coin |-> buy_coin,
     expected_return |-> expected_return]

\* variant: a return equal to the threshold is enough to buy
BuyIntents_AtThreshold(performance_data, h, top_coin) ==
    IF RLe(Rat(trade_amount), h[base_currency])
       /\ RLe(min_profit_threshold,
              calculate_fee_adjusted_return(base_currency, top_coin, performance_data))
    THEN <<Intent(base_currency, top_coin,
                  calculate_fee_adjusted_return(base_currency, top_coin,
                                                performance_data))>>
    ELSE <<>>

BuyIntents(performance_data, h, top_coin) ==
    IF RLe(Rat(trade_amount), h[base_currency])
       /\ RLt(min_profit_threshold,
              calculate_fee_adjusted_return(base_currency, top_coin, performance_data))
    THEN <<Intent(base_currency, top_coin,
                  calculate_fee_adjusted_return(base_currency, top_coin,
                                                performance_data))>>
    ELSE <<>>

\* variant: every coin with a negative score is sold, held or not
RECURSIVE SellIntents_NotHeld(_, _, _, _)
SellIntents_NotHeld(performance_data, held, coins, i) ==
    IF i > Len(coins) THEN <<>>
    ELSE (IF performance_data[coins[i]] < 0
          THEN <<Intent(coins[i], base_currency,
                        calculate_fee_adjusted_return(coins[i], base_currency,
                                                      performance_data))>>
          ELSE <<>>)
         \o SellIntents_NotHeld(performance_data, held, coins, i + 1)

\* variant: a coin is only sold when selling has a positive return
RECURSIVE SellIntents_IfProfitable(_, _, _, _)
SellIntents_IfProfitable(performance_data, held, coins, i) ==
    IF i > Len(coins) THEN <<>>
    ELSE (IF InSeq(coins[i], held) /\ performance_data[coins[i]] < 0
             /\ RLt(Zero, calculate_fee_adjusted_return(coins[i], base_currency,
                                                        performance_data))
          THEN <<Intent(coins[i], base_currency,
                        calculate_fee_adjusted_return(coins[i], base_currency,
                                                      performance_data))>>
          ELSE <<>>)
         \o SellIntents_IfProfitable(performance_data, held, coins, i + 1)

RECURSIVE SellIntents(_, _, _, _)
SellIntents(performance_data, held, coins, i) ==
    IF i > Len(coins) THEN <<>>
    ELSE LET coin == coins[i]
             expected_return ==
                 calculate_fee_adjusted_return(coin, base_currency, performance_data)
         IN  (IF InSeq(coin, held) /\ performance_data[coin] < 0
                 /\ RLt(RNeg(standard_fee), expected_return)
              THEN <<Intent(coin, base_currency, expected_return)>>
              ELSE <<>>)
             \o SellIntents(performance_data, held, coins, i + 1)

\* variant: a return equal to the threshold is enough to rotate
RECURSIVE RotationIntents_AtThreshold(_, _, _, _)
RotationIntents_AtThreshold(performance_data, held, top_coin, i) ==
    IF i > Len(held) THEN <<>>
    ELSE (IF held[i] # top_coin
             /\ RLe(min_profit_threshold,
                    calculate_fee_adjusted_return(held[i], top_coin,
                                                  performance_data))
          THEN <<Intent(held[i], top_coin,
                        calculate_fee_adjusted_return(held[i], top_coin,
                                                      performance_data))>>
          ELSE <<>>)
         \o RotationIntents_AtThreshold(performance_data, held, top_coin, i + 1)

RECURSIVE RotationIntents(_, _, _, _)
RotationIntents(performance_data, held, top_coin, i) ==
    IF i > Len(held) THEN <<>>
    ELSE LET coin == held[i]
             expected_return ==
                 calculate_fee_adjusted_return(coin, top_coin, performance_data)
         IN  (IF coin # top_coin /\ RLt(min_profit_threshold, expected_return)
              THEN <<Intent(coin, top_coin, expected_return)>>
              ELSE <<>>)
             \o RotationIntents(performance_data, held, top_coin, i + 1)

\* the rotation loop reads the score of every held coin other than top_coin
RotationRaises(performance_data, held, top_coin) ==
    \E i \in 1..Len(held) :
        /\ held[i] # top_coin
        /\ FeeAdjustedReturnRaises(held[i], top_coin, performance_data)

\* [raised, trades, reset, count, last_trade_day]: the exception that leaves
\* decide_trades ("none" when it returns), the returned list, whether the
\* counter was reset, and the counter and the stored date it leaves
decide_trades(performance_data, h, count, last_day, date) ==
    LET r == reset_daily_trade_count(count, last_day, date)
        ranked == ranked_coins(performance_data)
        held == current_holdings(h)
        top_coin == ranked[1]
        out(raised, trades) ==
            [raised |-> raised, trades |-> trades, reset |-> r.reset,
             count |-> r.daily_trade_count, last_trade_day |-> r.last_trade_day]
    IN  IF LimitReached(r.daily_trade_count) THEN out("none", <<>>)
        ELSE IF ranked = <<>> THEN out("IndexError", <<>>)
        ELSE IF RotationRaises(performance_data, held, top_coin)
        THEN out("KeyError", <<>>)
        ELSE out("none",
                 BuyIntents(performance_data, h, top_coin)
                 \o SellIntents(performance_data, held, Reverse(ranked), 1)
                 \o RotationIntents(performance_data, held, top_coin, 1))

(***************************************************************************)
(* TradeLogic.run_trading_cycle.  prices and performance are what the      *)
(* exchange returns this cycle, outs[i] the exchange's answers to the      *)
(* orders of the i-th intent.                                              *)
(***************************************************************************)
NoMap == [c \in {} |-> 0]

\* the element of a one-element set; x \in {v} names the value v
Only(S) == CHOOSE x \in S : TRUE

\* variant: the loop ends at the first intent that fails
RECURSIVE ExecuteAll_UntilFailure(_, _, _, _, _, _)
ExecuteAll_UntilFailure(ts, trades, i, prices, simulate, outs) ==
    IF i > Len(trades)
    THEN [ts |-> ts, calls |-> <<>>, results |-> <<>>, errors |-> <<>>,
          events |-> <<>>]
    ELSE Only({Only({[ts |-> rest.ts,
                      calls |-> <<<<trades[i].sell_coin, trades[i].buy_coin>>>>
                                \o rest.calls,
                      results |-> <<e.success>> \o rest.results,
                      errors |-> <<e.error>> \o rest.errors,
                      events |-> e.events \o rest.events] :
                     rest \in {IF e.success
                               THEN ExecuteAll_UntilFailure(e.ts, trades, i + 1,
                                                            prices, simulate, outs)
                               ELSE [ts |-> e.ts, calls |-> <<>>,
                                     results |-> <<>>, errors |-> <<>>,
                                     events |-> <<>>]}}) :
               e \in {execute_trade(ts, trades[i].sell_coin,
                                    trades[i].buy_coin, prices,
                                    trades[i].expected_return, simulate,
                                    outs[i])}})

\* the executions of trades[i..], one after the other:
\* [ts, calls, results, errors, events], calls being the
\* <<sell_coin, buy_coin>> execute_trade was called with, results what it
\* returned first and errors why it failed ("none" when it did not)
RECURSIVE ExecuteAll(_, _, _, _, _, _)
ExecuteAll(ts, trades, i, prices, simulate, outs) ==
    IF i > Len(trades)
    THEN [ts |-> ts, calls |-> <<>>, results |-> <<>>, errors |-> <<>>,
          events |-> <<>>]
    ELSE Only({Only({[ts |-> rest.ts,
                      calls |-> <<<<trades[i].sell_coin, trades[i].buy_coin>>>>
                                \o rest.calls,
                      results |-> <<e.success>> \o rest.results,
                      errors |-> <<e.error>> \o rest.errors,
                      events |-> e.events \o rest.events] :
                     rest \in {ExecuteAll(e.ts, trades, i + 1, prices,
                                          simulate, outs)}}) :
               e \in {execute_trade(ts, trades[i].sell_coin,
                                    trades[i].buy_coin, prices,
                                    trades[i].expected_return, simulate,
                                    outs[i])}})

\* self.exchange.calculate_performance exists: ExchangeHandler defines no
\* such method (PerformanceCalculator does, and main never hands it over)
HasCalculatePerformance == exchange # "ExchangeHandler"

\* the one mapping object TradeLogic.__init__ creates for its holdings;
\* self.holdings is never bound to another one
HoldingsRef == "TradeLogic.holdings"

\* DataManager.save_portfolio_snapshot: the snapshot is given
\* self.holdings itself and keeps this reference, not a copy; prices is a
\* new mapping in every cycle and total_value a number
Snapshot(prices, total_value) ==
    [holdings |-> HoldingsRef, prices |-> prices, total_value |-> total_value]

\* the mapping a reference refers to, h being the holdings of TradeLogic
Deref(ref, h) == IF ref = HoldingsRef THEN h ELSE NoMap

\* json.dump(self.portfolio_snapshots, f, ...): the file is written anew
\* with every snapshot of the list, each with the content its holdings
\* mapping has at that moment
json_dump(snapshots, h) ==
    [i \in 1..Len(snapshots) |->
        [holdings |-> Deref(snapshots[i].holdings, h),
         prices |-> snapshots[i].prices,
         total_value |-> snapshots[i].total_value]]

ExecuteSteps(n) == [i \in 1..n |-> "execute_trade"]

\* variant: an empty price mapping does not end the cycle
NoPrices_Ignored(prices) == FALSE

\* "if not prices"
NoPrices(prices) == DOMAIN prices = {}

\* the cycle from its valuation on, d being what decide_trades does and x
\* what the executions of its intents do:
\* [raised, returned, ts, last_trade_day, snapshots, steps, trades, calls,
\*  results, errors, events, reset, count, decided]
Cycle(prices, portfolio_value, d, x) ==
    LET out(raised, returned, ts, last_day, snapshots, steps, decided) ==
            [raised |-> raised, returned |-> returned, ts |-> ts,
             last_trade_day |-> last_day, snapshots |-> snapshots,
             steps |-> steps, decided |-> decided,
             trades |-> IF decided THEN d.trades ELSE <<>>,
             calls |-> IF decided /\ d.raised = "none" THEN x.calls ELSE <<>>,
             results |-> IF decided /\ d.raised = "none" THEN x.results ELSE <<>>,
             errors |-> IF decided /\ d.raised = "none" THEN x.errors ELSE <<>>,
             events |-> IF decided /\ d.raised = "none" THEN x.events ELSE <<>>,
             reset |-> decided /\ d.reset,
             count |-> IF decided THEN d.count ELSE daily_trade_count]
    IN  IF NoPrices(prices)
        THEN out("none", FALSE, LogicState, last_trade_day, portfolio_snapshots,
                 <<"get_current_prices">>, FALSE)
        ELSE IF ~HasCalculatePerformance
        THEN out("AttributeError", FALSE, LogicState, last_trade_day,
                 portfolio_snapshots,
                 <<"get_current_prices", "calculate_portfolio_value">>, FALSE)
        ELSE IF d.raised # "none"
        THEN out(d.raised, FALSE,
                 [LogicState EXCEPT !.daily_trade_count = d.count],
                 d.last_trade_day, portfolio_snapshots,
                 <<"get_current_prices", "calculate_portfolio_value",
                   "calculate_performance", "decide_trades">>, TRUE)
        ELSE out("none", TRUE, x.ts, d.last_trade_day,
                 Append(portfolio_snapshots, Snapshot(prices, portfolio_value)),
                 <<"get_current_prices", "calculate_portfolio_value",
                   "calculate_performance", "decide_trades">>
                 \o ExecuteSteps(Len(x.calls))
                 \o <<"save_portfolio_snapshot">>, TRUE)

run_trading_cycle(simulate, prices, performance, outs) ==
    Only({Only({Cycle(prices, calculate_portfolio_value(holdings, prices), d, x) :
                x \in {ExecuteAll([LogicState EXCEPT !.daily_trade_count = d.count],
                                  d.trades, 1, prices, simulate, outs)}}) :
          d \in {decide_trades(performance, holdings, daily_trade_count,
                               last_trade_day, today)}})

(***************************************************************************)
(* PerformanceCalculator.calculate_performance, the steps that compute the *)
(* rsi of one coin from its closes (the other fields of the record need a  *)
(* standard deviation and are left out).  A float is [kind, val]: a        *)
(* number, nan or an infinity.                                             *)
(***************************************************************************)
Num(x) == [kind |-> "num", val |-> x]
NaN == [kind |-> "nan", val |-> Zero]
Inf == [kind |-> "inf", val |-> Zero]

\* rolling(window=14)
RsiWindow == 14

\* delta = df['close'].diff() and delta.where(delta > 0, 0), at place i:
\* the first delta is nan, and nan > 0 is False
GainAt(close, i) ==
    IF i > 1 /\ close[i] - close[i - 1] > 0 THEN close[i] - close[i - 1] ELSE 0

\* delta.where(delta < 0, 0), at place i
LossAt(close, i) ==
    IF i > 1 /\ close[i] - close[i - 1] < 0 THEN close[i] - close[i - 1] ELSE 0

\* the sums of the places i.. of the two series
RECURSIVE SumGains(_, _)
SumGains(close, i) ==
    IF i > Len(close) THEN 0 ELSE GainAt(close, i) + SumGains(close, i + 1)

RECURSIVE SumLosses(_, _)
SumLosses(close, i) ==
    IF i > Len(close) THEN 0 ELSE LossAt(close, i) + SumLosses(close, i + 1)

\* .rolling(window=14).mean() at the last place: nan until 14 values are
\* there
gain(close) ==
    IF Len(close) < RsiWindow THEN NaN
    ELSE Num(Norm(SumGains(close, Len(close) - RsiWindow + 1), RsiWindow))

\* the mean of the losses, negated: never negative
loss(close) ==
    IF Len(close) < RsiWindow THEN NaN
    ELSE Num(Norm(-SumLosses(close, Len(close) - RsiWindow + 1), RsiWindow))

\* variant: a division by a zero loss gives nan, whatever is divided
FloatDiv_ZeroIsNaN(x, y) ==
    IF x.kind = "nan" \/ y.kind = "nan" THEN NaN
    ELSE IF y.val = Zero THEN NaN
    ELSE Num(RDiv(x.val, y.val))

\* x / y for numbers x >= 0 and y >= 0: 0/0 is nan and x/0 is an infinity
FloatDiv(x, y) ==
    IF x.kind = "nan" \/ y.kind = "nan" THEN NaN
    ELSE IF y.val = Zero THEN (IF x.val = Zero THEN NaN ELSE Inf)
    ELSE Num(RDiv(x.val, y.val))

\* rs = gain / loss
rs(close) == FloatDiv(gain(close), loss(close))

\* 100 / (1 + rs): 100 over an infinity is 0
HundredOverOnePlus(x) ==
    IF x.kind = "nan" THEN NaN
    ELSE IF x.kind = "inf" THEN Num(Zero)
    ELSE Num(RDiv(Rat(100), RAdd(One, x.val)))

fillna(x, value) == IF x.kind = "nan" THEN Num(value) ELSE x

\* rsi = 100 - (100 / (1 + rs)).fillna(50).iloc[-1]
rsi(close) ==
    RSub(Rat(100), fillna(HundredOverOnePlus(rs(close)), Rat(50)).val)

(***************************************************************************)
(* The inputs.                                                             *)
(***************************************************************************)
\* closes of the candles fetch_ohlcv returns, and how many of them
ClosePrices == {1, 2}
MinSamples == RsiWindow - 1
MaxSamples == 16

CloseWindows == UNION {[1..n -> ClosePrices] : n \in MinSamples..MaxSamples}

\* price mappings a caller may pass
PriceMaps == UNION {[D -> PriceValues] : D \in SUBSET Coins}

\* what get_current_prices can return: a price for each coin whose ticker
\* could be fetched
TickerMaps == UNION {[D -> TickerPrices] : D \in SUBSET Coins}

\* what calculate_performance can return: a score for each coin it could
\* score
PerformanceMaps == UNION {[D -> Scores] : D \in SUBSET Coins}

\* every ticker could be fetched
AllTickers == [Coins -> TickerPrices]

\* every coin could be scored, and scored -100 or 100
ExtremeScores == [Coins -> {-200, 200}]

\* the answers to <<sell order, buy order>>; ExchangeHandler called without
\* simulate never refuses, and a simulated trade places no order
OrderAnswers(simulate) ==
    IF simulate \/ exchange = "ExchangeHandler"
    THEN {<<TRUE, TRUE>>}
    ELSE {<<TRUE, TRUE>>, <<FALSE, TRUE>>, <<TRUE, FALSE>>}

\* a buy places no sell order and a sell no buy order: no answer to it
AnswersFor(sell_coin, buy_coin, simulate) ==
    {acc \in OrderAnswers(simulate) :
        /\ sell_coin = base_currency => acc[1]
        /\ buy_coin = base_currency => acc[2]}

ExpectedReturns == {Zero}

NoCall ==
    [op |-> "none", simulate |-> TRUE, sell_coin |-> "-", buy_coin |-> "-",
     prices |-> NoMap, performance |-> NoMap, raised |-> "none",
     success |-> FALSE, fee |-> Zero, error |-> "none", events |-> <<>>,
     answers |-> <<TRUE, TRUE>>, trades |-> <<>>, reset |-> FALSE,
     count |-> 0, steps |-> <<>>, results |-> <<>>, decided |-> FALSE,
     calls |-> <<>>, net_return |-> Zero, close |-> <<>>, rsi |-> Zero,
     errors |-> <<>>]

(***************************************************************************)
(* The state after construction (TradeLogic.__init__, DataManager.__init__ *)
(* with no files to load) and the operations.                              *)
(***************************************************************************)
Init ==
    /\ exchange \in ExchangeKinds
    /\ args_simulate \in BOOLEAN
    /\ taker_fee \in TakerFees
    /\ holdings = [a \in Assets |->
                     IF a = base_currency THEN Rat(trade_amount) ELSE Zero]
    /\ total_fees_paid = Zero
    /\ trades_executed = 0
    /\ daily_trade_count = 0
    /\ last_trade_day = NoDay
    /\ trade_history = <<>>
    /\ portfolio_snapshots = <<>>
    /\ snapshot_file = <<>>
    /\ today = 1
    /\ pc = "loop"
    /\ ret = NoCall
    /\ decide_days = {}
    /\ reset_count = [d \in 1..MaxDays |-> 0]

SetLogicState(ts) ==
    /\ holdings' = ts.holdings
    /\ total_fees_paid' = ts.total_fees_paid
    /\ trades_executed' = ts.trades_executed
    /\ daily_trade_count' = ts.daily_trade_count
    /\ trade_history' = ts.trade_history

NoteDecide(reset) ==
    /\ decide_days' = decide_days \cup {today}
    /\ reset_count' = IF reset THEN [reset_count EXCEPT ![today] = @ + 1]
                      ELSE reset_count

\* the date changes between two calls
Tick ==
    /\ ret.op = "none"
    /\ today < MaxDays
    /\ today' = today + 1
    /\ ret' = [NoCall EXCEPT !.op = "tick"]
    /\ UNCHANGED <<exchange, args_simulate, taker_fee, holdings, total_fees_paid,
                   trades_executed, daily_trade_count, last_trade_day,
                   trade_history, portfolio_snapshots, snapshot_file, pc, decide_days,
                   reset_count>>

\* a call of trade_logic.decide_trades(performance, prices)
DecideTrades ==
    /\ ret.op = "none"
    /\ \E performance \in PerformanceMaps :
        \E d \in {decide_trades(performance, holdings, daily_trade_count,
                                last_trade_day, today)} :
            /\ daily_trade_count' = d.count
            /\ last_trade_day' = d.last_trade_day
            /\ NoteDecide(d.reset)
            /\ ret' = [NoCall EXCEPT !.op = "decide_trades",
                                     !.performance = performance,
                                     !.raised = d.raised,
                                     !.trades = d.trades,
                                     !.reset = d.reset,
                                     !.count = d.count,
                                     !.decided = TRUE]
            /\ UNCHANGED <<exchange, args_simulate, taker_fee, holdings, total_fees_paid,
                           trades_executed, trade_history,
                           portfolio_snapshots, snapshot_file, today, pc>>

\* a call of trade_logic.execute_trade(sell_coin, buy_coin, prices,
\* expected_return, simulate) between two different assets; execute_trade
\* reads prices[sell_coin] and prices[buy_coin] only, and the prices of
\* the other coins are left out of the input
ExecuteTrade ==
    /\ ret.op = "none"
    /\ \E sell_coin \in Assets, buy_coin \in Assets, prices \in PriceMaps,
          expected_return \in ExpectedReturns :
        /\ sell_coin # buy_coin
        /\ DOMAIN prices \subseteq {sell_coin, buy_coin}
        /\ \E simulate \in {args_simulate} :
           \E acc \in AnswersFor(sell_coin, buy_coin, simulate) :
           \E e \in {execute_trade(LogicState, sell_coin, buy_coin, prices,
                                    expected_return, simulate, acc)} :
                /\ e.ts.trades_executed <= MaxTrades
                /\ SetLogicState(e.ts)
                /\ ret' = [NoCall EXCEPT !.op = "execute_trade",
                                         !.simulate = simulate,
                                         !.sell_coin = sell_coin,
                                         !.buy_coin = buy_coin,
                                         !.prices = prices,
                                         !.success = e.success,
                                         !.fee = e.fee,
                                         !.error = e.error,
                                         !.answers = acc,
                                         !.events = e.events]
                /\ UNCHANGED <<exchange, args_simulate, taker_fee, last_trade_day,
                               portfolio_snapshots, snapshot_file, today, pc, decide_days,
                               reset_count>>

\* a call of fee_calc.calculate_fee_adjusted_return(from_coin, to_coin,
\* performance_data, base_currency) with the configured base currency
FeeAdjustedReturn ==
    /\ ret.op = "none"
    /\ \E from_coin \in Assets, to_coin \in Assets, performance \in PerformanceMaps :
        /\ ret' = [NoCall EXCEPT
                      !.op = "calculate_fee_adjusted_return",
                      !.sell_coin = from_coin,
                      !.buy_coin = to_coin,
                      !.performance = performance,
                      !.raised =
                          IF FeeAdjustedReturnRaises(from_coin, to_coin, performance)
                          THEN "KeyError" ELSE "none",
                      !.net_return =
                          IF FeeAdjustedReturnRaises(from_coin, to_coin, performance)
                          THEN Zero
                          ELSE calculate_fee_adjusted_return(from_coin, to_coin,
                                                             performance)]
        /\ UNCHANGED <<exchange, args_simulate, taker_fee, holdings,
                       total_fees_paid, trades_executed, daily_trade_count,
                       last_trade_day, trade_history, portfolio_snapshots, snapshot_file,
                       today, pc, decide_days, reset_count>>

\* the rsi steps of calculate_performance for one coin whose candles have
\* the closes close
CalculatePerformance ==
    /\ ret.op = "none"
    /\ \E close \in CloseWindows :
        ret' = [NoCall EXCEPT !.op = "calculate_performance",
                              !.close = close,
                              !.rsi = rsi(close)]
    /\ UNCHANGED <<exchange, args_simulate, taker_fee, holdings,
                   total_fees_paid, trades_executed, daily_trade_count,
                   last_trade_day, trade_history, portfolio_snapshots, snapshot_file,
                   today, pc, decide_days, reset_count>>

\* one turn of the loop of main: trade_logic.run_trading_cycle(simulate),
\* then the sleep; an exception leaving it ends the loop.  The exchange
\* answers with prices of tickers and scores of performances, and the run
\* is followed up to snapshots snapshots and trades trades
MainLoopWith(tickers, performances, snapshots, trades) ==
    /\ ret.op = "none"
    /\ pc = "loop"
    /\ Len(portfolio_snapshots) < snapshots
    /\ \E prices \in tickers, performance \in performances :
        \E simulate \in {args_simulate} :
        \E n \in {Len(decide_trades(performance, holdings, daily_trade_count,
                                     last_trade_day, today).trades)} :
        \E outs \in [1..n -> OrderAnswers(simulate)] :
            \E c \in {run_trading_cycle(simulate, prices, performance, outs)} :
                /\ c.ts.trades_executed <= trades
                /\ SetLogicState(c.ts)
                /\ last_trade_day' = c.last_trade_day
                /\ portfolio_snapshots' = c.snapshots
                /\ snapshot_file' = IF c.returned
                                    THEN json_dump(c.snapshots, c.ts.holdings)
                                    ELSE snapshot_file
                /\ IF c.decided THEN NoteDecide(c.reset)
                   ELSE UNCHANGED <<decide_days, reset_count>>
                /\ pc' = IF c.raised = "none" THEN "loop" ELSE "finally"
                /\ ret' = [NoCall EXCEPT !.op = "run_trading_cycle",
                                         !.simulate = simulate,
                                         !.prices = prices,
                                         !.performance =
                                             IF c.decided THEN performance
                                             ELSE NoMap,
                                         !.raised = c.raised,
                                         !.success = c.returned,
                                         !.events = c.events,
                                         !.trades = c.trades,
                                         !.reset = c.reset,
                                         !.count = c.count,
                                         !.steps = c.steps,
                                         !.results = c.results,
                                         !.errors = c.errors,
                                         !.calls = c.calls,
                                         !.decided = c.decided]
                /\ UNCHANGED <<exchange, args_simulate, taker_fee, today>>

MainLoop == MainLoopWith(TickerMaps, PerformanceMaps, MaxSnapshots, MaxTrades)

\* the turns of a longer run, in which every ticker answers and every coin
\* is scored, with a score of -100 or 100
LongMainLoop ==
    MainLoopWith(AllTickers, ExtremeScores, LongSnapshots, LongTrades)

\* the finally block of main: the final portfolio value is logged
Finally ==
    /\ ret.op = "none"
    /\ pc = "finally"
    /\ pc' = "done"
    /\ ret' = [NoCall EXCEPT !.op = "finally"]
    /\ UNCHANGED <<exchange, args_simulate, taker_fee, holdings, total_fees_paid,
                   trades_executed, daily_trade_count, last_trade_day,
                   trade_history, portfolio_snapshots, snapshot_file, today, decide_days,
                   reset_count>>

\* the caller goes on: the returned values are dropped
Return ==
    /\ ret.op # "none"
    /\ ret' = NoCall
    /\ UNCHANGED <<exchange, args_simulate, taker_fee, holdings,
                   total_fees_paid, trades_executed, daily_trade_count,
                   last_trade_day, trade_history, portfolio_snapshots, snapshot_file, today,
                   pc, decide_days, reset_count>>

\* the program: main with its loop
Next == Tick \/ MainLoop \/ Finally \/ Return

Spec == Init /\ [][Next]_vars

\* the methods of TradeLogic called one by one, as a client or a test does
ApiNext == Tick \/ DecideTrades \/ ExecuteTrade \/ Return

ApiSpec == Init /\ [][ApiNext]_vars

\* decide_trades and calculate_fee_adjusted_return as functions of what
\* they read: the ledger, the daily counter and the stored date are drawn,
\* the ledger among those with whole and half trade amounts, the rest is as
\* after construction
LedgerBalances == {Zero, <<trade_amount, 2>>, Rat(trade_amount)}

Ledgers == [Assets -> LedgerBalances]

DecideInit ==
    /\ exchange = "ExchangeHandler"
    /\ args_simulate = TRUE
    /\ taker_fee \in TakerFees
    /\ holdings \in Ledgers
    /\ total_fees_paid = Zero
    /\ trades_executed = 0
    /\ daily_trade_count \in 0..max_trades_per_day
    /\ last_trade_day \in {NoDay, 1}
    /\ trade_history = <<>>
    /\ portfolio_snapshots = <<>>
    /\ snapshot_file = <<>>
    /\ today = 1
    /\ pc = "loop"
    /\ ret = NoCall
    /\ decide_days = {}
    /\ reset_count = [d \in 1..MaxDays |-> 0]

DecideNext == DecideTrades \/ FeeAdjustedReturn \/ Return

DecideSpec == DecideInit /\ [][DecideNext]_vars

\* the program in a longer simulated run without fees
LongInit ==
    /\ Init
    /\ args_simulate
    /\ taker_fee = Zero

LongNext == Tick \/ LongMainLoop \/ Finally \/ Return

LongSpec == LongInit /\ [][LongNext]_vars

\* the scoring on its own: calculate_performance reads the candles only
ScoreInit ==
    /\ Init
    /\ exchange = "OrderExecutor"
    /\ args_simulate
    /\ taker_fee = Zero

ScoreNext == CalculatePerformance \/ Return

ScoreSpec == ScoreInit /\ [][ScoreNext]_vars

(***************************************************************************)
(* The properties.                                                         *)
(***************************************************************************)
InitialHoldings ==
    [a \in Assets |-> IF a = base_currency THEN Rat(trade_amount) ELSE Zero]

IsRotation(r) ==
    /\ r.op = "execute_trade"
    /\ r.sell_coin # base_currency
    /\ r.buy_coin # base_currency

\* q gives the coins of p the prices p gives them
Extends(q, p) == \A c \in DOMAIN p : c \in DOMAIN q /\ q[c] = p[c]

\* the amount a trade of call r is charged its fee on, in base currency, h
\* being the ledger before the call
TradedAmount(r, h) ==
    IF r.sell_coin = base_currency
    THEN RMin(h[base_currency], Rat(trade_amount))
    ELSE RMul(h[r.sell_coin], Rat(r.prices[r.sell_coin]))

\* C1: a successful execute_trade lowers the total value of the ledger, at
\* the prices of the call (whatever the prices of the coins not traded), by
\* exactly the fee of its trade record, and strictly when the fee rate and
\* the traded amount are positive.
C1_ValueDropsByFee ==
    [][(ret'.op = "execute_trade" /\ ret'.success) =>
        /\ Len(trade_history') = Len(trade_history) + 1
        /\ trade_history'[Len(trade_history')].fee = ret'.fee
        /\ \A q \in PriceMaps :
            Extends(q, ret'.prices) =>
                /\ calculate_portfolio_value(holdings', q)
                       = RSub(calculate_portfolio_value(holdings, q),
                              trade_history'[Len(trade_history')].fee)
                /\ (RLt(Zero, standard_fee)
                        /\ RLt(Zero, TradedAmount(ret', holdings))) =>
                       RLt(calculate_portfolio_value(holdings', q),
                           calculate_portfolio_value(holdings, q))]_vars

C1_Witness ==
    /\ IsRotation(ret)
    /\ ret.success
    /\ RLt(Zero, ret.fee)
    /\ ret.prices[ret.sell_coin] # ret.prices[ret.buy_coin]

\* C2: the ledger always has an entry for the base currency and for every
\* trade coin, no balance is negative, and before the first trade the coins
\* are 0 and the base currency is the configured trade amount.
C2_LedgerNonNegative ==
    /\ DOMAIN holdings = Assets
    /\ \A a \in Assets : RLe(Zero, holdings[a])
    /\ trades_executed = 0 => holdings = InitialHoldings

C2_Witness ==
    /\ trades_executed >= 3
    /\ ret.op = "execute_trade"
    /\ ret.success
    /\ ret.sell_coin = base_currency
    /\ holdings[base_currency] = Zero
    /\ RLt(Zero, holdings[ret.buy_coin])
    /\ RLt(holdings[ret.buy_coin], Rat(trade_amount))

\* C3: a decide_trades call that finds the daily counter, after the date
\* reset, at or above max_trades_per_day returns the empty list and leaves
\* the ledger as it was.
C3_LimitStopsDecide ==
    [][(ret'.op = "decide_trades" /\ ret'.count >= max_trades_per_day) =>
        /\ ret'.raised = "none"
        /\ ret'.trades = <<>>
        /\ holdings' = holdings]_vars

C3_Witness ==
    /\ ret.op = "decide_trades"
    /\ ret.count >= max_trades_per_day
    /\ ret.trades = <<>>
    /\ RLe(Rat(trade_amount), holdings[base_currency])
    /\ \E c \in DOMAIN ret.performance : ret.performance[c] = 200
    /\ \E c \in DOMAIN ret.performance :
        ret.performance[c] < 0 /\ RLt(Zero, holdings[c])

\* C4: with the date never going back, the daily counter has been reset
\* exactly once on every date decide_trades was called on and never on
\* another date, and the call that resets it leaves it at 0.
C4_OneResetPerDate ==
    /\ \A d \in 1..MaxDays :
        reset_count[d] = IF d \in decide_days THEN 1 ELSE 0
    /\ (ret.op = "decide_trades" /\ ret.reset) => ret.count = 0

C4_Witness ==
    /\ today = 2
    /\ reset_count[1] = 1
    /\ reset_count[2] = 1
    /\ ret.op = "decide_trades"
    /\ ~ret.reset
    /\ ret.count > 0

\* C5: decide_trades called with an empty performance mapping returns the
\* empty list and raises nothing.
C5_EmptyPerformanceHandled ==
    (ret.op = "decide_trades" /\ DOMAIN ret.performance = {}) =>
        /\ ret.raised = "none"
        /\ ret.trades = <<>>

\* C6: an execute_trade that returns failure leaves the ledger,
\* trades_executed, daily_trade_count, total_fees_paid and the trade log as
\* they were.
C6_FailureChangesNothing ==
    [][(ret'.op = "execute_trade" /\ ~ret'.success) =>
        /\ holdings' = holdings
        /\ trades_executed' = trades_executed
        /\ daily_trade_count' = daily_trade_count
        /\ total_fees_paid' = total_fees_paid
        /\ trade_history' = trade_history]_vars

C6_Witness ==
    /\ ret.op = "execute_trade"
    /\ ~ret.success
    /\ ret.error = "order"
    /\ ret.sell_coin = base_currency
    /\ ret.events = <<<<"execute_buy", "market_order">>>>
    /\ trades_executed > 0
    /\ RLt(Zero, holdings[base_currency])

\* a rotation, not simulated, whose sell order was placed and accepted and
\* whose buy order was placed and refused
RotationBuyRefused(r) ==
    /\ IsRotation(r)
    /\ ~r.simulate
    /\ r.answers = <<TRUE, FALSE>>
    /\ r.events = <<<<"execute_sell", "market_order">>,
                    <<"execute_buy", "market_order">>>>

MarketOrdersThenLedger(sell_coin, buy_coin) ==
    (IF sell_coin # base_currency
     THEN <<<<"execute_sell", "market_order">>>> ELSE <<>>)
    \o (IF buy_coin # base_currency
        THEN <<<<"execute_buy", "market_order">>>> ELSE <<>>)
    \o <<<<"holdings", "update">>>>

\* C8: a successful execute_trade with simulate = False has placed its
\* market order, or its sell order and then its buy order, at the exchange
\* before it changed the ledger.
C8_MarketOrdersFirst ==
    (ret.op = "execute_trade" /\ ~ret.simulate /\ ret.success) =>
        ret.events = MarketOrdersThenLedger(ret.sell_coin, ret.buy_coin)

\* C9: after every cycle, whatever went wrong in it, main is still in its
\* loop.
C9_LoopGoesOn ==
    ret.op = "run_trading_cycle" => pc = "loop"

\* C10: a cycle whose price fetch returned a price has run the valuation,
\* the scoring, decide_trades, execute_trade for each intent and the
\* snapshot, in this order, and has returned True.
C10_FullCycle ==
    (ret.op = "run_trading_cycle" /\ DOMAIN ret.prices # {}) =>
        /\ ret.raised = "none"
        /\ ret.success
        /\ ret.steps = <<"get_current_prices", "calculate_portfolio_value",
                         "calculate_performance", "decide_trades">>
                       \o ExecuteSteps(Len(ret.trades))
                       \o <<"save_portfolio_snapshot">>

\* C11: a cycle whose price fetch returns no price returns False and
\* changes nothing: the ledger, the daily counter and the stored date, the
\* statistics, the trade log and the snapshots stay as they were, and
\* neither decide_trades nor execute_trade is called.
C11_NoPricesNoChange ==
    [][(ret'.op = "run_trading_cycle" /\ DOMAIN ret'.prices = {}) =>
        /\ ret'.raised = "none"
        /\ ~ret'.success
        /\ holdings' = holdings
        /\ daily_trade_count' = daily_trade_count
        /\ last_trade_day' = last_trade_day
        /\ total_fees_paid' = total_fees_paid
        /\ trades_executed' = trades_executed
        /\ trade_history' = trade_history
        /\ portfolio_snapshots' = portfolio_snapshots
        /\ ~ret'.decided
        /\ decide_days' = decide_days
        /\ ret'.calls = <<>>
        /\ ret'.steps = <<"get_current_prices">>]_vars

C11_Witness ==
    /\ ret.op = "run_trading_cycle"
    /\ DOMAIN ret.prices = {}
    /\ ~ret.success
    /\ trades_executed > 0
    /\ daily_trade_count > 0
    /\ portfolio_snapshots # <<>>

\* the <<sell_coin, buy_coin>> of the intents of a list, in its order
IntentPairs(trades) ==
    [i \in 1..Len(trades) |-> <<trades[i].sell_coin, trades[i].buy_coin>>]

\* C12: in a cycle that gets to its executions, execute_trade is called once
\* for each intent decide_trades returned, in the order of the list, whether
\* or not an earlier one failed, and the snapshot is taken after them.
C12_EveryIntentExecuted ==
    [][(ret'.op = "run_trading_cycle" /\ ret'.decided /\ ret'.raised = "none") =>
        /\ ret'.trades = decide_trades(ret'.performance, holdings,
                                       daily_trade_count, last_trade_day,
                                       today).trades
        /\ ret'.calls = IntentPairs(ret'.trades)
        /\ Len(ret'.results) = Len(ret'.trades)
        /\ ret'.steps = <<"get_current_prices", "calculate_portfolio_value",
                          "calculate_performance", "decide_trades">>
                        \o ExecuteSteps(Len(ret'.trades))
                        \o <<"save_portfolio_snapshot">>
        /\ Len(portfolio_snapshots') = Len(portfolio_snapshots) + 1
        /\ ret'.success]_vars

C12_Witness ==
    /\ ret.op = "run_trading_cycle"
    /\ ret.results = <<FALSE, TRUE>>
    /\ Len(ret.calls) = 2
    /\ ret.steps[Len(ret.steps)] = "save_portfolio_snapshot"

\* a decide_trades call has returned its list; the ledger it read is
\* holdings, which it does not write
DecideReturned == ret.op = "decide_trades" /\ ret.raised = "none"

\* the counter the call found after its date reset is below the limit
BelowLimit == ret.count < max_trades_per_day

\* no scored coin has a higher score than c
HasTopScore(c) ==
    /\ c \in DOMAIN ret.performance
    /\ \A d \in DOMAIN ret.performance :
        ret.performance[d] <= ret.performance[c]

\* the places of the returned list holding an intent of each kind
AccumulationAt ==
    {i \in 1..Len(ret.trades) : ret.trades[i].sell_coin = base_currency}

LiquidationAt ==
    {i \in 1..Len(ret.trades) : ret.trades[i].buy_coin = base_currency}

RotationAt ==
    {i \in 1..Len(ret.trades) :
        /\ ret.trades[i].sell_coin # base_currency
        /\ ret.trades[i].buy_coin # base_currency}

\* n / 100 for a score difference of n halves of a percent
Hundredth(n) == Norm(n, 200)

\* C13: a decide_trades call that returns has emitted an accumulation intent
\* exactly when the daily limit is not reached, the base balance is at least
\* trade_amount and score[top]/100 - standard_fee is strictly above
\* min_profit_threshold; the intent buys a coin of highest score, carries
\* that return, and there is at most one.
C13_AccumulationRule ==
    DecideReturned =>
        /\ Cardinality(AccumulationAt) <= 1
        /\ (AccumulationAt # {}) <=>
              /\ BelowLimit
              /\ RLe(Rat(trade_amount), holdings[base_currency])
              /\ \E c \in Coins :
                    /\ HasTopScore(c)
                    /\ RLt(min_profit_threshold,
                           RSub(Hundredth(ret.performance[c]), standard_fee))
        /\ \A i \in AccumulationAt :
              /\ HasTopScore(ret.trades[i].buy_coin)
              /\ ret.trades[i].expected_return
                     = RSub(Hundredth(ret.performance[ret.trades[i].buy_coin]),
                            standard_fee)

C13_Witness ==
    /\ DecideReturned
    /\ AccumulationAt = {1}
    /\ RLt(Zero, standard_fee)
    /\ Len(ret.trades) >= 2

\* the held coins with a negative score whose return of selling is above
\* -standard_fee
ToLiquidate ==
    {c \in Coins :
        /\ RLt(Zero, holdings[c])
        /\ c \in DOMAIN ret.performance
        /\ ret.performance[c] < 0
        /\ RLt(RNeg(standard_fee),
               RSub(Hundredth(-ret.performance[c]), standard_fee))}

\* C14: a decide_trades call that passes the limit check and returns has
\* emitted one liquidation intent (asset, base, r) for each held coin with a
\* negative score and r = -score/100 - standard_fee > -standard_fee, and for
\* no other asset.
C14_LiquidationRule ==
    (DecideReturned /\ BelowLimit) =>
        /\ {ret.trades[i].sell_coin : i \in LiquidationAt} = ToLiquidate
        /\ Cardinality(LiquidationAt) = Cardinality(ToLiquidate)
        /\ \A i \in LiquidationAt :
              ret.trades[i].expected_return
                  = RSub(Hundredth(-ret.performance[ret.trades[i].sell_coin]),
                         standard_fee)

C14_Witness ==
    /\ DecideReturned
    /\ Cardinality(LiquidationAt) = 2
    /\ RLt(Zero, standard_fee)
    /\ \E c \in Coins : c \in DOMAIN ret.performance /\ ret.performance[c] = -1

\* the held coins that are not the top coin and whose return of rotating
\* into it is above min_profit_threshold
ToRotate ==
    {c \in Coins :
        /\ RLt(Zero, holdings[c])
        /\ c \in DOMAIN ret.performance
        /\ \E t \in Coins :
              /\ HasTopScore(t)
              /\ t # c
              /\ RLt(min_profit_threshold,
                     RSub(Hundredth(ret.performance[t] - ret.performance[c]),
                          RMul(Rat(2), standard_fee)))}

\* C15: a decide_trades call that passes the limit check and returns has
\* emitted one rotation intent (asset, top, r) for each held coin other than
\* the top coin with r = (score[top] - score[asset])/100 - 2*standard_fee
\* strictly above min_profit_threshold, and for no other asset; no intent of
\* a returned list sells and buys the same asset.
C15_RotationRule ==
    /\ DecideReturned =>
          \A i \in 1..Len(ret.trades) :
              ret.trades[i].sell_coin # ret.trades[i].buy_coin
    /\ (DecideReturned /\ BelowLimit) =>
          /\ {ret.trades[i].sell_coin : i \in RotationAt} = ToRotate
          /\ Cardinality(RotationAt) = Cardinality(ToRotate)
          /\ \A i \in RotationAt :
                /\ HasTopScore(ret.trades[i].buy_coin)
                /\ ret.trades[i].expected_return
                       = RSub(Hundredth(ret.performance[ret.trades[i].buy_coin]
                                        - ret.performance[ret.trades[i].sell_coin]),
                              RMul(Rat(2), standard_fee))

C15_Witness ==
    /\ DecideReturned
    /\ RotationAt # {}
    /\ RLt(Zero, standard_fee)
    /\ AccumulationAt = {}

\* 1 for an accumulation, 2 for a liquidation, 3 for a rotation
IntentKind(i) ==
    IF i \in AccumulationAt THEN 1 ELSE IF i \in LiquidationAt THEN 2 ELSE 3

IsBuy(r) == r.op = "execute_trade" /\ r.sell_coin = base_currency

IsSell(r) == r.op = "execute_trade" /\ r.buy_coin = base_currency

\* the balances of the assets outside S are those before the step
OthersUnchanged(S) == \A a \in Assets \ S : holdings'[a] = holdings[a]

\* C17: a successful buy trades s = min(base balance, trade_amount) > 0, is
\* charged s * standard_fee, takes exactly s from the base balance, adds
\* exactly (s - fee) / price[to] to the bought coin (the quantity added,
\* times the price, is s - fee) and changes no other balance; a buy with
\* s <= 0 fails.
C17_BuyArithmetic ==
    [][IsBuy(ret') =>
        LET s == RMin(holdings[base_currency], Rat(trade_amount))
            fee == RMul(s, standard_fee)
            to == ret'.buy_coin
        IN  /\ RLe(s, Zero) => ~ret'.success
            /\ ret'.success =>
                  /\ RLt(Zero, s)
                  /\ ret'.fee = fee
                  /\ holdings'[base_currency] = RSub(holdings[base_currency], s)
                  /\ ret'.prices[to] # 0
                  /\ RMul(RSub(holdings'[to], holdings[to]), Rat(ret'.prices[to]))
                         = RSub(s, fee)
                  /\ OthersUnchanged({base_currency, to})]_vars

C17_Witness ==
    /\ IsBuy(ret)
    /\ ret.success
    /\ RLt(Zero, ret.fee)
    /\ RLt(ret.fee, RMul(Rat(trade_amount), standard_fee))
    /\ ret.prices[ret.buy_coin] = 2
    /\ holdings[base_currency] = Zero

\* C18: a successful sell sells the whole balance q > 0 of the coin: the
\* coin is left at 0, the base balance grows by
\* q*price - q*price*standard_fee and no other balance changes; a sell with
\* q <= 0 fails.
C18_SellArithmetic ==
    [][IsSell(ret') =>
        LET from == ret'.sell_coin
            q == holdings[from]
        IN  /\ RLe(q, Zero) => ~ret'.success
            /\ ret'.success =>
                  /\ RLt(Zero, q)
                  /\ holdings'[from] = Zero
                  /\ holdings'[base_currency]
                         = RAdd(holdings[base_currency],
                                RSub(RMul(q, Rat(ret'.prices[from])),
                                     RMul(RMul(q, Rat(ret'.prices[from])),
                                          standard_fee)))
                  /\ OthersUnchanged({base_currency, from})]_vars

C18_Witness ==
    /\ IsSell(ret)
    /\ ret.success
    /\ RLt(Zero, ret.fee)
    /\ ret.prices[ret.sell_coin] = 2
    /\ holdings[ret.sell_coin] = Zero
    /\ holdings[base_currency] = ret.fee

\* C19: a successful rotation leaves the sold coin at 0 and the base balance
\* as it was, adds q*price[from]*(1 - standard_fee)*(1 - standard_fee) /
\* price[to] to the target coin, and records as fee the sell-leg fee plus
\* the buy-leg fee, the latter charged on the proceeds net of the former.
C19_RotationArithmetic ==
    [][(IsRotation(ret') /\ ret'.success) =>
        LET from == ret'.sell_coin
            to == ret'.buy_coin
            proceeds == RMul(holdings[from], Rat(ret'.prices[from]))
            keep == RSub(One, standard_fee)
            sell_fee == RMul(proceeds, standard_fee)
            buy_fee == RMul(RSub(proceeds, sell_fee), standard_fee)
        IN  /\ holdings'[from] = Zero
            /\ holdings'[base_currency] = holdings[base_currency]
            /\ ret'.prices[to] # 0
            /\ RMul(RSub(holdings'[to], holdings[to]), Rat(ret'.prices[to]))
                   = RMul(RMul(proceeds, keep), keep)
            /\ ret'.fee = RAdd(sell_fee, buy_fee)
            /\ trade_history'[Len(trade_history')].fee = RAdd(sell_fee, buy_fee)
            /\ trade_history'[Len(trade_history')].type = "rotation"
            /\ OthersUnchanged({from, to})]_vars

C19_Witness ==
    /\ IsRotation(ret)
    /\ ret.success
    /\ ~ret.simulate
    /\ RLt(Zero, ret.fee)
    /\ ret.prices[ret.sell_coin] = 2
    /\ ret.prices[ret.buy_coin] = 1
    /\ holdings[ret.sell_coin] = Zero
    /\ RLt(Zero, holdings[ret.buy_coin])

\* the sum of the fee fields of the records of a log
RECURSIVE FeeSum(_)
FeeSum(log) ==
    IF log = <<>> THEN Zero
    ELSE RAdd(FeeSum(SubSeq(log, 1, Len(log) - 1)), log[Len(log)].fee)

\* C20: a successful execute_trade adds 1 to trades_executed and to
\* daily_trade_count, adds its fee to total_fees_paid and appends one record,
\* with that fee, to the trade log; so trades_executed is always the number
\* of records appended and total_fees_paid the sum of their fees, and no
\* step changes a record already in the log.
C20_Bookkeeping ==
    /\ [](/\ trades_executed = Len(trade_history)
          /\ total_fees_paid = FeeSum(trade_history))
    /\ [][/\ Len(trade_history') >= Len(trade_history)
          /\ SubSeq(trade_history', 1, Len(trade_history)) = trade_history
          /\ (ret'.op = "execute_trade" /\ ret'.success) =>
                /\ trades_executed' = trades_executed + 1
                /\ daily_trade_count' = daily_trade_count + 1
                /\ total_fees_paid' = RAdd(total_fees_paid, ret'.fee)
                /\ Len(trade_history') = Len(trade_history) + 1
                /\ trade_history'[Len(trade_history')].fee = ret'.fee
                /\ trade_history'[Len(trade_history')].sell_coin = ret'.sell_coin
                /\ trade_history'[Len(trade_history')].buy_coin = ret'.buy_coin]_vars

C20_Witness ==
    /\ ret.op = "execute_trade"
    /\ ret.success
    /\ trades_executed = 3
    /\ daily_trade_count = 3
    /\ Len(trade_history) = 3
    /\ RLt(Zero, trade_history[1].fee)
    /\ RLt(trade_history[3].fee, trade_history[1].fee)

\* a calculate_fee_adjusted_return call between two different assets
FeeReturnCall(r) ==
    /\ r.op = "calculate_fee_adjusted_return"
    /\ r.sell_coin # r.buy_coin

\* C21: calculate_fee_adjusted_return(from, to, performance, base), for
\* from # to and the scores it reads being there, returns
\* score[to]/100 - standard_fee when from is the base currency,
\* (-score[from]/100 if score[from] < 0, else 0) - standard_fee when to is
\* the base currency, and (score[to] - score[from])/100 - 2*standard_fee
\* when neither is; the result is the same whatever the ledger, and the call
\* changes neither the ledger nor the counters, the log or the snapshots.
C21_FeeAdjustedReturn ==
    [][FeeReturnCall(ret') =>
        LET from == ret'.sell_coin
            to == ret'.buy_coin
            score == ret'.performance
        IN  /\ ret'.raised = "none" <=>
                  ({from, to} \ {base_currency}) \subseteq DOMAIN score
            /\ (ret'.raised = "none" /\ from = base_currency) =>
                  ret'.net_return = RSub(Hundredth(score[to]), standard_fee)
            /\ (ret'.raised = "none" /\ to = base_currency) =>
                  ret'.net_return
                      = RSub(IF score[from] < 0 THEN Hundredth(-score[from])
                             ELSE Zero,
                             standard_fee)
            /\ (ret'.raised = "none" /\ from # base_currency
                    /\ to # base_currency) =>
                  ret'.net_return
                      = RSub(Hundredth(score[to] - score[from]),
                             RMul(Rat(2), standard_fee))
            /\ UNCHANGED <<holdings, total_fees_paid, trades_executed,
                           daily_trade_count, last_trade_day, trade_history,
                           portfolio_snapshots>>]_vars

C21_Witness ==
    /\ FeeReturnCall(ret)
    /\ ret.raised = "none"
    /\ ret.sell_coin # base_currency
    /\ ret.buy_coin # base_currency
    /\ RLt(Zero, standard_fee)
    /\ ret.performance[ret.sell_coin] < 0
    /\ ret.performance[ret.buy_coin] > 0
    /\ RLt(Zero, holdings[ret.sell_coin])
    /\ ret.net_return = RSub(Hundredth(201), One)

\* the closes of a scoring call are at least 15 and none of the 14 trailing
\* close-to-close changes is a loss
NoLossInWindow(r) ==
    /\ r.op = "calculate_performance"
    /\ Len(r.close) >= RsiWindow + 1
    /\ \A i \in (Len(r.close) - RsiWindow + 1)..Len(r.close) :
          r.close[i] >= r.close[i - 1]

GainInWindow(r) ==
    \E i \in (Len(r.close) - RsiWindow + 1)..Len(r.close) :
        r.close[i] > r.close[i - 1]

C23_SkippedAssetNotFatal ==
    (/\ ret.op = "decide_trades"
     /\ DOMAIN ret.performance # {}
     /\ DOMAIN ret.performance # Coins) => ret.raised = "none"

\* C24: after any sequence of cycles the daily counter is at most
\* max_trades_per_day: no more trades than the daily maximum are executed
\* on one date, also when one cycle emits several intents.
C24_DailyLimitKept ==
    daily_trade_count <= max_trades_per_day

\* a cycle that got to its executions
CycleExecuted(r) ==
    r.op = "run_trading_cycle" /\ r.decided /\ r.raised = "none"

\* intent i of the cycle liquidates the asset intent j rotates out of
LiquidatedAndRotated(r, i, j) ==
    /\ r.trades[i].sell_coin = r.trades[j].sell_coin
    /\ r.trades[i].buy_coin = base_currency
    /\ r.trades[j].buy_coin # base_currency

\* the number of executions of the cycle that succeeded
Successes(r) == Cardinality({i \in 1..Len(r.results) : r.results[i]})

\* no two executions of the cycle that sold the same asset both succeeded
NoAssetSoldTwice(r) ==
    \A i, j \in 1..Len(r.calls) :
        (i < j /\ r.calls[i][1] = r.calls[j][1]
               /\ r.calls[i][1] # base_currency) =>
            ~(r.results[i] /\ r.results[j])

\* C25 as claimed: when a cycle emits a liquidation and a rotation of the
\* same asset, the liquidation is executed first and succeeds and the
\* rotation fails for insufficient balance; no cycle sells an asset twice.
C25_RotationAlwaysFails ==
    [][CycleExecuted(ret') =>
        /\ \A i, j \in 1..Len(ret'.trades) :
              LiquidatedAndRotated(ret', i, j) =>
                  /\ i < j
                  /\ ret'.results[i]
                  /\ ~ret'.results[j]
                  /\ ret'.errors[j] = "insufficient"
        /\ NoAssetSoldTwice(ret')]_vars

\* C25 as amended: when a cycle emits a liquidation and a rotation of the
\* same asset, the liquidation is executed first; if it succeeds the asset
\* is left at 0 and the rotation fails for insufficient balance; only the
\* executions that succeed are counted and logged; no cycle sells an asset
\* twice, so none credits a balance to both the base currency and the top
\* asset.
C25_LiquidationThenRotation ==
    [][CycleExecuted(ret') =>
        /\ ret'.calls = IntentPairs(ret'.trades)
        /\ \A i, j \in 1..Len(ret'.trades) :
              LiquidatedAndRotated(ret', i, j) =>
                  /\ i < j
                  /\ ret'.results[i] =>
                        /\ ~ret'.results[j]
                        /\ ret'.errors[j] = "insufficient"
                        /\ holdings'[ret'.trades[i].sell_coin] = Zero
        /\ NoAssetSoldTwice(ret')
        /\ trades_executed' = trades_executed + Successes(ret')
        /\ daily_trade_count' = ret'.count + Successes(ret')
        /\ Len(trade_history') = Len(trade_history) + Successes(ret')]_vars

C25_Witness ==
    /\ CycleExecuted(ret)
    /\ Len(ret.trades) = 2
    /\ LiquidatedAndRotated(ret, 1, 2)
    /\ ret.results = <<TRUE, FALSE>>
    /\ ret.errors = <<"none", "insufficient">>
    /\ RLt(Zero, holdings[base_currency])
    /\ holdings[ret.trades[2].buy_coin] = Zero
    /\ daily_trade_count = 2

\* the held coins with a negative score
HeldLosers ==
    {c \in Coins :
        /\ RLt(Zero, holdings[c])
        /\ c \in DOMAIN ret.performance
        /\ ret.performance[c] < 0}

SnapshotValue(h, prices) == calculate_portfolio_value(h, prices)

\* C27: the snapshot a cycle appends has as total_value the value of its
\* holdings at its prices, in memory and in the file, also when the cycle
\* executed trades.
C27_SnapshotValueOfItsHoldings ==
    CycleExecuted(ret) =>
        /\ portfolio_snapshots # <<>>
        /\ Len(snapshot_file) = Len(portfolio_snapshots)
        /\ portfolio_snapshots[Len(portfolio_snapshots)].total_value
               = SnapshotValue(
                     Deref(portfolio_snapshots[Len(portfolio_snapshots)].holdings,
                           holdings),
                     portfolio_snapshots[Len(portfolio_snapshots)].prices)
        /\ snapshot_file[Len(snapshot_file)].total_value
               = SnapshotValue(snapshot_file[Len(snapshot_file)].holdings,
                               snapshot_file[Len(snapshot_file)].prices)

\* C28: snapshots are append-only: a step leaves every snapshot already in
\* the list as it was, its holdings showing the balances they showed
\* before, and leaves what the file holds for it as it was.
C28_SnapshotsAppendOnly ==
    [][/\ Len(portfolio_snapshots') >= Len(portfolio_snapshots)
       /\ Len(snapshot_file') >= Len(snapshot_file)
       /\ \A i \in 1..Len(portfolio_snapshots) :
             /\ portfolio_snapshots'[i].prices = portfolio_snapshots[i].prices
             /\ portfolio_snapshots'[i].total_value
                    = portfolio_snapshots[i].total_value
             /\ Deref(portfolio_snapshots'[i].holdings, holdings')
                    = Deref(portfolio_snapshots[i].holdings, holdings)
       /\ \A i \in 1..Len(snapshot_file) :
             snapshot_file'[i] = snapshot_file[i]]_vars

=============================================================================
